---- MODULE Spec2Model ----
(***************************************************************************)
(* Model of the viewer dialog of the NetCDF Viewer QGIS plugin             *)
(* (netcdf_viewer_dialog.py, class NetCDFViewerDialog), whose visualize    *)
(* handler turns one variable of the opened dataset into a temporary       *)
(* GeoTIFF and registers it as a raster layer.                             *)
(*                                                                         *)
(* Numbers are integers: coordinate values, raw cell values, scale and     *)
(* offset are drawn from small integer sets, so float arithmetic is exact. *)
(***************************************************************************)
EXTENDS Integers, Sequences, FiniteSets, TLC

VARIABLES dataset, var_combo, files, writes, registry, last, gtres, projres

vars == <<dataset, var_combo, files, writes, registry, last, gtres, projres>>

(***************************************************************************)
(* Bounds of the model.                                                    *)
(***************************************************************************)
\* Number of distinct temporary paths mkstemp can hand out.
MaxPaths == 2
\* Largest extent of the leading (outermost) dimension of a rank-3 variable.
MaxLead == 1
\* Coordinate values are drawn from -1..MaxCoord.
MaxCoord == 2
\* Longest coordinate array.
MaxLen == 3

(***************************************************************************)
(* Attribute values.  A netCDF attribute is absent, a number, a string (or *)
(* a list of names, for `coordinates` after split()), or a value of an     *)
(* unexpected type: a string that float() rejects and that numpy cannot    *)
(* multiply an array by.                                                   *)
(***************************************************************************)
Absent == [k |-> "absent", v |-> 0]
Bad == [k |-> "bad", v |-> 0]
Num(n) == [k |-> "num", v |-> n]
Str(s) == [k |-> "str", v |-> s]

\* hasattr(var, name)
hasattr(a) == a.k # "absent"

\* Default satellite height, getattr(proj_var, 'perspective_point_height', 35786023.0)
DefaultHeight == 35786023
\* Default fill value, fill_value = -9999.0
DefaultFill == -9999
\* float(getattr(var, 'scale_factor', 1.0))
DefaultScale == 1
\* float(getattr(var, 'add_offset', 0.0))
DefaultOffset == 0

(***************************************************************************)
(* Variables of a dataset.  Every variable has the same record shape:      *)
(*   shape        extents, outermost first (var.shape)                     *)
(*   dimensions   dimension names, same length (var.dimensions)            *)
(*   vals         the payload var[:], flattened row-major                  *)
(*   coordinates, axis, FillValue, missing_value, scale_factor,            *)
(*   add_offset, grid_mapping_name, perspective_point_height: attributes   *)
(***************************************************************************)
Variable(shape, dimensions, vals) ==
    [shape |-> shape, dimensions |-> dimensions, vals |-> vals,
     coordinates |-> Absent, axis |-> Absent,
     FillValue |-> Absent, missing_value |-> Absent,
     scale_factor |-> Absent, add_offset |-> Absent,
     grid_mapping_name |-> Absent, perspective_point_height |-> Absent]

\* A grid-mapping variable: a scalar carrying only attributes.
GridMapping(gmn, height) ==
    [Variable(<<>>, <<>>, <<0>>) EXCEPT !.grid_mapping_name = gmn,
                                        !.perspective_point_height = height]

\* A 1-D coordinate variable over the dimension `dim`.
Coord1D(dim, vals, axis) ==
    [Variable(<<Len(vals)>>, <<dim>>, vals) EXCEPT !.axis = axis]

\* len(var.shape)
Rank(var) == Len(var.shape)

\* `name in self.dataset.variables`
HasVar(ds, name) == name \in DOMAIN ds

(***************************************************************************)
(* get_projection_info                                                     *)
(***************************************************************************)
\* proj_vars, in the order the code scans them
proj_vars == <<"crs", "transverse_mercator", "projection", "lambert_conformal_conic",
               "goes_imager_projection", "polar_stereographic", "grid_mapping">>

\* A scan without the break: the last candidate present wins.
FirstProjVarLast(ds) ==
    IF \E i \in 1..Len(proj_vars) : HasVar(ds, proj_vars[i])
    THEN CHOOSE i \in 1..Len(proj_vars) :
            /\ HasVar(ds, proj_vars[i])
            /\ \A j \in (i+1)..Len(proj_vars) : ~HasVar(ds, proj_vars[j])
    ELSE 0

\* for var_name in proj_vars: if var_name in variables: proj_var = ...; break
\* Index in proj_vars of the first candidate present, 0 when none is.
FirstProjVar(ds) ==
    IF \E i \in 1..Len(proj_vars) : HasVar(ds, proj_vars[i])
    THEN CHOOSE i \in 1..Len(proj_vars) :
            /\ HasVar(ds, proj_vars[i])
            /\ \A j \in 1..(i-1) : ~HasVar(ds, proj_vars[j])
    ELSE 0

\* Result of get_projection_info when no candidate is present: (None, None)
NoSrs == [found |-> FALSE, kind |-> "None", h |-> Absent, var_name |-> "None", raised |-> FALSE]

\* The if/elif chain over grid_mapping_name.  An osr.SpatialReference that no
\* branch filled stays empty (kind "empty").
SrsKind(proj_var) ==
    LET a == proj_var.grid_mapping_name
    IN  IF ~hasattr(a) THEN "empty"
        ELSE IF a.k # "str" THEN "empty"
        ELSE IF a.v = "latitude_longitude" THEN "EPSG4326"
        ELSE IF a.v = "transverse_mercator" THEN "TM"
        ELSE IF a.v = "lambert_conformal_conic" THEN "LCC"
        ELSE IF a.v = "geostationary" THEN "geos"
        ELSE IF a.v = "polar_stereographic" THEN "PS"
        ELSE "empty"

\* get_projection_info(self).  proj4_raises is the library's answer to a proj
\* string whose +h is not a number: ImportFromProj4 either returns an error
\* code the code ignores (the reference stays empty) or raises.
get_projection_info(ds, proj4_raises) ==
    LET i == FirstProjVar(ds)
    IN  IF i = 0 THEN NoSrs
        ELSE LET proj_var == ds[proj_vars[i]]
                 kind == SrsKind(proj_var)
                 h == proj_var.perspective_point_height
                 badh == kind = "geos" /\ h.k = "bad"
             IN  [found |-> TRUE,
                  kind |-> IF badh THEN "empty" ELSE kind,
                  h |-> IF kind = "geos" /\ ~badh
                        THEN (IF hasattr(h) THEN h ELSE Num(0)) ELSE Absent,
                  var_name |-> proj_vars[i],
                  raised |-> badh /\ proj4_raises]

\* What ImportFromProj4 may answer for this dataset: it is called in the
\* geostationary branch only, and fails only on a height that is not a number.
Proj4Answers(ds) ==
    IF get_projection_info(ds, TRUE).raised THEN BOOLEAN ELSE {FALSE}

(***************************************************************************)
(* get_geotransform: coordinate resolution                                 *)
(***************************************************************************)
x_coords == {"x", "lon", "longitude", "projection_x_coordinate"}
y_coords == {"y", "lat", "latitude", "projection_y_coordinate"}

\* coord_name in x_coords or (hasattr(coord_var, 'axis') and coord_var.axis == 'X')
IsX(ds, name) ==
    \/ name \in x_coords
    \/ (hasattr(ds[name].axis) /\ ds[name].axis.k = "str" /\ ds[name].axis.v = "X")

\* the elif branch: reached only when the X test failed
IsY(ds, name) ==
    /\ ~IsX(ds, name)
    /\ \/ name \in y_coords
       \/ (hasattr(ds[name].axis) /\ ds[name].axis.k = "str" /\ ds[name].axis.v = "Y")

\* Nothing resolved yet: x_var = y_var = None, x_name = y_name = None.
\* x_src / y_src record which loop assigned the axis.
Unresolved == [x_name |-> "None", y_name |-> "None", x_src |-> "None", y_src |-> "None"]

\* One pass of `for name in names:` starting at index i; a later name of the
\* same axis overwrites an earlier one.
RECURSIVE ClassifyLoop(_, _, _, _, _)
ClassifyLoop(ds, names, i, acc, src) ==
    IF i > Len(names) THEN acc
    ELSE LET name == names[i]
             nxt == IF ~HasVar(ds, name) THEN acc
                    ELSE IF IsX(ds, name)
                         THEN [acc EXCEPT !.x_name = name, !.x_src = src]
                    ELSE IF IsY(ds, name)
                         THEN [acc EXCEPT !.y_name = name, !.y_src = src]
                    ELSE acc
         IN  ClassifyLoop(ds, names, i + 1, nxt, src)

\* if hasattr(var, 'coordinates'): for coord_name in var.coordinates.split(): ...
ResolveFromCoordinates(ds, var) ==
    IF hasattr(var.coordinates) /\ var.coordinates.k = "str"
    THEN ClassifyLoop(ds, var.coordinates.v, 1, Unresolved, "coordinates")
    ELSE Unresolved

\* ... if x_var is None or y_var is None: for dim in dims: ...
ResolveCoordinates(ds, var) ==
    LET c == ResolveFromCoordinates(ds, var)
    IN  IF c.x_name = "None" \/ c.y_name = "None"
        THEN ClassifyLoop(ds, var.dimensions, 1, c, "dimensions")
        ELSE c

(***************************************************************************)
(* get_geotransform: the six-parameter transform                           *)
(***************************************************************************)
Abs(n) == IF n < 0 THEN -n ELSE n

\* x = x_var[:]; if len(x.shape) > 1: x = x[0, :]      (first row)
XValues(cv) ==
    IF Rank(cv) = 1 THEN cv.vals
    ELSE [j \in 1..cv.shape[2] |-> cv.vals[j]]

\* y = y_var[:]; if len(y.shape) > 1: y = y[:, 0]      (first column)
YValues(cv) ==
    IF Rank(cv) = 1 THEN cv.vals
    ELSE [i \in 1..cv.shape[1] |-> cv.vals[(i - 1) * cv.shape[2] + 1]]

\* An orientation test that compares the two ends of the array.
AscendingByEnds(a) == IF Len(a) > 1 THEN a[Len(a)] > a[1] ELSE TRUE

\* x[1] > x[0] if len(x) > 1 else True
Ascending(a) == IF Len(a) > 1 THEN a[2] > a[1] ELSE TRUE

\* Coordinates left as stored.
NotScaled(a, h) == a

\* x * satellite_height
Scaled(a, h) == [i \in 1..Len(a) |-> a[i] * h]

\* abs(x[1] - x[0]) if len(x) > 1 else 1
PixelSize(a) == IF Len(a) > 1 THEN Abs(a[2] - a[1]) ELSE 1

\* (None, None)
NoGeotransform == [ok |-> FALSE, gt |-> <<>>, x_name |-> "None", y_name |-> "None"]

\* The statements that raise inside the try block, all caught by
\* `except Exception: return None, None`: slicing a scalar or indexing a
\* coordinate array of rank above 2 down to one axis, multiplying by a
\* height that is not a number, and x[0] / y[0] of an empty array.
GeotransformRaises(ds, c) ==
    LET xv == ds[c.x_name]
        yv == ds[c.y_name]
    IN  \/ Rank(xv) \notin {1, 2}
        \/ Rank(yv) \notin {1, 2}
        \/ /\ HasVar(ds, "goes_imager_projection")
           /\ ds["goes_imager_projection"].perspective_point_height.k \notin {"absent", "num"}
        \/ Len(XValues(xv)) = 0
        \/ Len(YValues(yv)) = 0

\* satellite_height = getattr(proj_var, 'perspective_point_height', 35786023.0)
SatelliteHeight(ds) ==
    LET h == ds["goes_imager_projection"].perspective_point_height
    IN  IF hasattr(h) THEN h.v ELSE DefaultHeight

\* geotransform[5] = -pixel_height
StoredPixelHeight(pixel_height) == -pixel_height

\* Lines 295-335 for resolved, non-raising coordinates.
BuildGeotransform(ds, c) ==
    LET x0 == XValues(ds[c.x_name])
        y0 == YValues(ds[c.y_name])
        x_ascending == Ascending(x0)
        y_ascending == Ascending(y0)
        is_goes == HasVar(ds, "goes_imager_projection")
        x == IF is_goes THEN Scaled(x0, SatelliteHeight(ds)) ELSE x0
        y == IF is_goes THEN Scaled(y0, SatelliteHeight(ds)) ELSE y0
        pixel_width == IF x_ascending THEN PixelSize(x) ELSE -PixelSize(x)
        pixel_height == IF y_ascending THEN -PixelSize(y) ELSE PixelSize(y)
        x_min == IF x_ascending THEN x[1] ELSE x[Len(x)]
        y_max == IF y_ascending THEN y[Len(y)] ELSE y[1]
    IN  <<x_min, pixel_width, 0, y_max, 0, StoredPixelHeight(pixel_height)>>

\* get_geotransform(self, var)
get_geotransform(ds, var) ==
    LET c == ResolveCoordinates(ds, var)
    IN  IF c.x_name = "None" \/ c.y_name = "None" THEN NoGeotransform
        ELSE IF GeotransformRaises(ds, c) THEN NoGeotransform
        ELSE [ok |-> TRUE, gt |-> BuildGeotransform(ds, c),
              x_name |-> c.x_name, y_name |-> c.y_name]

(***************************************************************************)
(* visualize: fill value, scale and offset                                 *)
(***************************************************************************)
\* A conversion that accepts anything.
FloatNeverRaises(a) == FALSE

\* float(x) of an attribute value raises unless the value is a number.
FloatRaises(a) == a.k # "num"

\* Lines 383-393: the float() conversions that raise, in the order the code
\* reaches them.
NormalizeRaises(var) ==
    \/ (hasattr(var.FillValue) /\ FloatRaises(var.FillValue))
    \/ (~hasattr(var.FillValue) /\ hasattr(var.missing_value)
            /\ FloatRaises(var.missing_value))
    \/ (hasattr(var.scale_factor) /\ FloatRaises(var.scale_factor))
    \/ (hasattr(var.add_offset) /\ FloatRaises(var.add_offset))

\* _FillValue, else missing_value, else -9999.0
RawFill(var) ==
    IF hasattr(var.FillValue) THEN var.FillValue.v
    ELSE IF hasattr(var.missing_value) THEN var.missing_value.v
    ELSE DefaultFill

ScaleFactor(var) == IF hasattr(var.scale_factor) THEN var.scale_factor.v ELSE DefaultScale
AddOffset(var) == IF hasattr(var.add_offset) THEN var.add_offset.v ELSE DefaultOffset

\* fill_value = fill_value * scale_factor + add_offset
ScaledFill(var) == RawFill(var) * ScaleFactor(var) + AddOffset(var)

\* One cell of  data = np.ma.masked_equal(data, fill_value);
\*              data = data * scale_factor + add_offset
\* as band.WriteArray sees it.  Arithmetic on a numpy masked array leaves the
\* stored value of a masked cell as it was (the result is reverted to the
\* first operand where the mask is set), and WriteArray writes the stored
\* values, not the mask.
WrittenCell(raw, fill, scale, offset) ==
    IF raw = fill THEN raw ELSE raw * scale + offset

\* The array handed to band.WriteArray, flattened row-major.
WrittenData(var) ==
    [i \in 1..Len(var.vals) |->
        WrittenCell(var.vals[i], RawFill(var), ScaleFactor(var), AddOffset(var))]

(***************************************************************************)
(* visualize: the steps and where an exception stops them                  *)
(***************************************************************************)
\* Environment outcomes of one call: which library call fails, if any.
Faults == {"none", "driver", "create", "band", "write_status", "stats", "invalid"}

\* The rank test with the bound off by one.
RankOkLoose(var) == Rank(var) >= 1

\* not (len(var.shape) < 2)
RankOk(var) == Rank(var) >= 2

\* xsize = int(data.shape[1])
RasterXSize(shape) == shape[2]
\* ysize = int(data.shape[0])
RasterYSize(shape) == shape[1]

\* Steps of visualize after the rank check:
\*   1 mkstemp            2 fill/scale/offset   3 GetDriverByName
\*   4 shape[1], shape[0], driver.Create        5 get_projection_info, SetProjection
\*   6 get_geotransform, SetGeoTransform        7 GetRasterBand
\*   8 WriteArray         9 SetNoDataValue     10 ComputeStatistics
\*  11 close             12 QgsRasterLayer     13 addMapLayer / pushMessage
\* FailStep is the step whose exception sends control to `except Exception`,
\* 0 when none does.  WriteArray takes a 2-D array only and raises otherwise.
\* FailStepAbortsWithoutProjection is the same with a projection step that
\* needs a grid-mapping variable.
FailStepAbortsWithoutProjection(var, srs, fault) ==
    IF NormalizeRaises(var) THEN 2
    ELSE IF fault = "driver" THEN 3
    ELSE IF Rank(var) < 2 \/ fault = "create" THEN 4
    ELSE IF srs.raised \/ ~srs.found THEN 5
    ELSE IF fault = "band" THEN 7
    ELSE IF Rank(var) # 2 \/ fault = "write_status" THEN 8
    ELSE IF fault = "stats" THEN 10
    ELSE 0

FailStep(var, srs, fault) ==
    IF NormalizeRaises(var) THEN 2
    ELSE IF fault = "driver" THEN 3
    ELSE IF Rank(var) < 2 \/ fault = "create" THEN 4
    ELSE IF srs.raised THEN 5
    ELSE IF fault = "band" THEN 7
    ELSE IF Rank(var) # 2 \/ fault = "write_status" THEN 8
    ELSE IF fault = "stats" THEN 10
    ELSE 0

\* Whether step n ran to its end.
Completed(fail, n) == fail = 0 \/ n < fail

\* `if srs:` -- an osr.SpatialReference object defines neither __bool__ nor
\* __len__, so every reference the classifier returns is true; only None is false.
SrsTruthy(srs) == srs.found

\* `if geotransform:` -- a six-element list is true, None is false.
GeotransformTruthy(gt) == gt.ok

\* Registration without the validity test.
LayerAddedAlways(fail, fault) == fail = 0

\* if layer.isValid(): QgsProject.instance().addMapLayer(layer)
LayerAdded(fail, fault) == fail = 0 /\ fault # "invalid"

Opt(cond, op) == IF cond THEN <<op>> ELSE <<>>

\* The calls of one visualize call with the layer built from the file before
\* the output dataset is released.
CallOpsLayerBeforeClose(fail, srs, gt, fault) ==
    <<"mkstemp">>
    \o Opt(Completed(fail, 4), "Create")
    \o Opt(Completed(fail, 5) /\ SrsTruthy(srs), "SetProjection")
    \o Opt(Completed(fail, 6) /\ GeotransformTruthy(gt), "SetGeoTransform")
    \o Opt(Completed(fail, 8), "WriteArray")
    \o Opt(Completed(fail, 9), "SetNoDataValue")
    \o Opt(Completed(fail, 10), "ComputeStatistics")
    \o Opt(Completed(fail, 12), "QgsRasterLayer")
    \o Opt(Completed(fail, 11), "close")
    \o Opt(LayerAdded(fail, fault), "addMapLayer")
    \o Opt(~LayerAdded(fail, fault), "pushMessage")

\* The library calls of one visualize call that ran, in order.
CallOps(fail, srs, gt, fault) ==
    <<"mkstemp">>
    \o Opt(Completed(fail, 4), "Create")
    \o Opt(Completed(fail, 5) /\ SrsTruthy(srs), "SetProjection")
    \o Opt(Completed(fail, 6) /\ GeotransformTruthy(gt), "SetGeoTransform")
    \o Opt(Completed(fail, 8), "WriteArray")
    \o Opt(Completed(fail, 9), "SetNoDataValue")
    \o Opt(Completed(fail, 10), "ComputeStatistics")
    \o Opt(Completed(fail, 11), "close")
    \o Opt(Completed(fail, 12), "QgsRasterLayer")
    \o Opt(LayerAdded(fail, fault), "addMapLayer")
    \o Opt(~LayerAdded(fail, fault), "pushMessage")

(***************************************************************************)
(* Temporary files                                                         *)
(***************************************************************************)
Paths == 1..MaxPaths

\* A temporary-file routine that does not look at what exists.
mkstempAnyPath(existing) == Paths

\* tempfile.mkstemp(suffix='.tif'): creates a file that did not exist and
\* returns its path.
mkstemp(existing) == Paths \ existing

(***************************************************************************)
(* The record of one visualize call                                        *)
(***************************************************************************)
\* No call made yet in this dialog.
IdleCall ==
    [var |-> "", outcome |-> "idle", fault |-> "none", fail |-> 0, path |-> 0, ops |-> <<>>,
     xsize |-> 0, ysize |-> 0, projection |-> "unset", srs |-> NoSrs,
     gt |-> NoGeotransform, band |-> <<>>, nodata |-> Absent]

\* if not var_name: return
NoSelectionCall == [IdleCall EXCEPT !.outcome = "no_selection"]

\* if len(var.shape) < 2: pushMessage(...); return
RankErrorCall(var_name) ==
    [IdleCall EXCEPT !.var = var_name, !.outcome = "rank_error",
                     !.ops = <<"pushMessage">>]

\* Lines 370-474 for a variable that passed the rank check, with the
\* temporary path p and the environment's answers.
CallRecord(ds, var_name, p, fault, proj4_raises, nodata_ok) ==
    LET var == ds[var_name]
        srs == get_projection_info(ds, proj4_raises)
        fail == FailStep(var, srs, fault)
        gt == IF Completed(fail, 6) THEN get_geotransform(ds, var) ELSE NoGeotransform
    IN  [var |-> var_name,
         outcome |-> IF fail # 0 THEN "exception"
                     ELSE IF LayerAdded(fail, fault) THEN "added" ELSE "invalid",
         fault |-> fault,
         fail |-> fail,
         path |-> p,
         ops |-> CallOps(fail, srs, gt, fault),
         xsize |-> IF Completed(fail, 4) THEN RasterXSize(var.shape) ELSE 0,
         ysize |-> IF Completed(fail, 4) THEN RasterYSize(var.shape) ELSE 0,
         projection |-> IF Completed(fail, 5) /\ SrsTruthy(srs) THEN srs.kind ELSE "unset",
         srs |-> IF fail = 0 \/ fail >= 5 THEN srs ELSE NoSrs,
         gt |-> gt,
         band |-> IF Completed(fail, 8) THEN WrittenData(var) ELSE <<>>,
         nodata |-> IF Completed(fail, 9) /\ nodata_ok THEN Num(ScaledFill(var)) ELSE Absent]

(***************************************************************************)
(* Datasets the plugin is run on                                           *)
(***************************************************************************)
RECURSIVE Prod(_)
Prod(shape) == IF shape = <<>> THEN 1 ELSE Head(shape) * Prod(Tail(shape))

\* Raw cell values: the default fill value, a declared fill value, ordinary values.
RawPattern == <<-9999, -9, 0, 7>>
PatternData(n) == [i \in 1..n |-> RawPattern[((i - 1) % Len(RawPattern)) + 1]]

\* No fill, scale or offset attribute at all.
NoNorm == [f |-> Absent, m |-> Absent, s |-> Absent, o |-> Absent]

\* The attributes a data variable may carry for fill, scale and offset.
NormOptions ==
    { NoNorm,
      [f |-> Num(-9), m |-> Num(7), s |-> Num(2), o |-> Num(1)],
      [f |-> Absent, m |-> Num(7), s |-> Num(3), o |-> Absent],
      [f |-> Absent, m |-> Absent, s |-> Bad, o |-> Absent],
      [f |-> Num(-9), m |-> Absent, s |-> Absent, o |-> Bad] }

DataVar(shape, dimensions, coordinates, n) ==
    [Variable(shape, dimensions, PatternData(Prod(shape)))
        EXCEPT !.coordinates = coordinates, !.FillValue = n.f,
               !.missing_value = n.m, !.scale_factor = n.s, !.add_offset = n.o]

\* A function with no variables in it.
NoVars == [name \in {} |-> Absent]

\* Grid-mapping variables of the dataset.
ProjOptions ==
    { NoVars,
      "crs" :> GridMapping(Absent, Absent),
      "crs" :> GridMapping(Str("latitude_longitude"), Absent),
      "crs" :> GridMapping(Str("rotated_latitude_longitude"), Absent),
      "goes_imager_projection" :> GridMapping(Str("geostationary"), Num(2)),
      "goes_imager_projection" :> GridMapping(Str("geostationary"), Bad) }

\* Coordinate variables of a 2 x 3 grid: none, or the dimension variables.
CoordOptions ==
    { NoVars,
      ("y" :> Coord1D("y", <<5, 3>>, Absent)) @@ ("x" :> Coord1D("x", <<0, 1, 2>>, Absent)) }

\* Shapes of the data variable: the 2 x 3 grid, alone or under a leading dimension.
DataShapes ==
    { [shape |-> <<2, 3>>, dimensions |-> <<"y", "x">>] }
    \cup { [shape |-> <<t, 2, 3>>, dimensions |-> <<"time", "y", "x">>] : t \in 1..MaxLead }

\* The files a dialog is opened on, one of them without any variable.
Datasets ==
    { ("data" :> DataVar(sh.shape, sh.dimensions, Absent, n)) @@ c @@ pr :
        sh \in DataShapes, n \in NormOptions, c \in CoordOptions, pr \in ProjOptions }
    \cup {NoVars}

(***************************************************************************)
(* State                                                                   *)
(*   dataset    self.dataset, the variables of the file the dialog shows   *)
(*   var_combo  currentText of the variable combo box                      *)
(*   files      temporary paths that exist on disk                         *)
(*   writes     per path, the number of visualize calls that used it       *)
(*   registry   paths of the layers added to the project                   *)
(*   last       what the last visualize call did, with the environment's   *)
(*              answer (fault) it met                                      *)
(*   gtres      result of a direct get_geotransform call                   *)
(*   projres    result of a direct get_projection_info call                *)
(***************************************************************************)
NoResult == [done |-> FALSE, res |-> NoGeotransform, c |-> Unresolved]

NoProjResult == [done |-> FALSE, res |-> NoSrs]

\* populateTree: every variable becomes an item of the combo box, whose
\* current text is the first one added ("" for a file without variables).
\* Any variable may be the first of its file.
InitialSelection(ds) == IF DOMAIN ds = {} THEN {""} ELSE DOMAIN ds

\* NetCDFViewerDialog.__init__ on some file.
Init ==
    /\ dataset \in Datasets
    /\ var_combo \in InitialSelection(dataset)
    /\ files = {}
    /\ writes = [p \in Paths |-> 0]
    /\ registry = {}
    /\ last = IdleCall
    /\ gtres = NoResult
    /\ projres = NoProjResult

\* The user picks another item of the combo box.
selectVariable ==
    /\ \E name \in DOMAIN dataset : var_combo' = name
    /\ UNCHANGED <<dataset, files, writes, registry, last, gtres, projres>>

\* NetCDFViewerDialog.visualize, the handler of the Visualize button.
visualize ==
    /\ IF var_combo = ""
       THEN /\ last' = NoSelectionCall
            /\ UNCHANGED <<files, writes, registry>>
       ELSE IF ~RankOk(dataset[var_combo])
       THEN /\ last' = RankErrorCall(var_combo)
            /\ UNCHANGED <<files, writes, registry>>
       ELSE \E p \in mkstemp(files), fault \in Faults,
               proj4_raises \in Proj4Answers(dataset), nodata_ok \in BOOLEAN :
            LET call == CallRecord(dataset, var_combo, p, fault,
                                   proj4_raises, nodata_ok)
            IN  /\ last' = call
                /\ files' = files \cup {p}
                /\ writes' = [writes EXCEPT ![p] = @ + 1]
                /\ registry' = IF call.outcome = "added"
                               THEN registry \cup {p} ELSE registry
    /\ UNCHANGED <<dataset, var_combo, gtres, projres>>

Next == selectVariable \/ visualize

Spec == Init /\ [][Next]_vars

(***************************************************************************)
(* get_geotransform on its own: inputs and specification                   *)
(***************************************************************************)
\* Coordinate arrays of every length up to MaxLen: ascending, descending,
\* constant and non-monotonic ones.
CoordArrays == UNION { [1..n -> -1..MaxCoord] : n \in 1..MaxLen }

\* The three orderings, for the axis that is not being varied.
FixedArrays == { <<0, 1, 2>>, <<2, 1, 0>>, <<1>> }

\* The satellite grid-mapping variable: absent, with a height, without one,
\* with a height that is not a number.
GoesOptions ==
    { NoVars,
      "goes_imager_projection" :> GridMapping(Str("geostationary"), Num(3)),
      "goes_imager_projection" :> GridMapping(Str("geostationary"), Absent),
      "goes_imager_projection" :> GridMapping(Str("geostationary"), Bad) }

GridVar(coordinates, dimensions) ==
    DataVar(<<2, 3>>, dimensions, coordinates, NoNorm)

\* Dimension variables y and x with every pair of orderings and values.
ArrayDatasets ==
    { ("data" :> GridVar(Absent, <<"y", "x">>))
        @@ ("y" :> Coord1D("y", ya, Absent)) @@ ("x" :> Coord1D("x", xa, Absent)) @@ g :
        ya \in CoordArrays, xa \in FixedArrays, g \in GoesOptions }
    \cup
    { ("data" :> GridVar(Absent, <<"y", "x">>))
        @@ ("y" :> Coord1D("y", ya, Absent)) @@ ("x" :> Coord1D("x", xa, Absent)) @@ g :
        ya \in FixedArrays, xa \in CoordArrays, g \in GoesOptions }

\* A 2-D auxiliary coordinate variable over (y, x), flattened row-major.
Coord2D(vals) == Variable(<<2, 3>>, <<"y", "x">>, vals)

\* Coordinate variables a file may hold besides the data variable:
\* dimension variables x and y, auxiliary lon and lat (1-D or 2-D), and
\* xc / yc, recognised by their axis attribute only.
CoordVarSets ==
    { NoVars,
      ("y" :> Coord1D("y", <<5, 3>>, Absent)) @@ ("x" :> Coord1D("x", <<0, 1, 2>>, Absent)),
      ("lat" :> Coord1D("y", <<40, 50>>, Absent)) @@ ("lon" :> Coord1D("x", <<10, 20, 30>>, Absent)),
      ("y" :> Coord1D("y", <<5, 3>>, Absent)) @@ ("x" :> Coord1D("x", <<0, 1, 2>>, Absent))
        @@ ("lat" :> Coord1D("y", <<40, 50>>, Absent)) @@ ("lon" :> Coord1D("x", <<10, 20, 30>>, Absent)),
      ("y" :> Coord1D("y", <<5, 3>>, Absent)) @@ ("lon" :> Coord1D("x", <<10, 20, 30>>, Absent)),
      ("x" :> Coord1D("x", <<0, 1, 2>>, Absent)) @@ ("lat" :> Coord1D("y", <<40, 50>>, Absent)),
      ("y" :> Coord1D("y", <<5, 3>>, Absent)) @@ ("x" :> Coord1D("x", <<0, 1, 2>>, Absent))
        @@ ("yc" :> Coord1D("y", <<7, 8>>, Str("Y"))) @@ ("xc" :> Coord1D("x", <<6, 4, 2>>, Str("X"))),
      ("lat" :> Coord2D(<<40, 41, 42, 50, 51, 52>>)) @@ ("lon" :> Coord2D(<<10, 20, 30, 11, 21, 31>>)),
      ("y" :> Coord1D("y", <<5, 3>>, Absent)) @@ ("x" :> Coord1D("x", <<>>, Absent)) }

\* var.coordinates.split()
CoordinatesAttrs ==
    { Absent, Str(<<"lon", "lat">>), Str(<<"lat", "lon">>), Str(<<"lon">>), Str(<<"lat">>),
      Str(<<"xc", "yc">>), Str(<<"time", "lat", "lon">>), Str(<<"x", "lon">>) }

\* var.dimensions
DimensionLists == { <<"y", "x">>, <<"x", "y">>, <<"row", "col">>, <<"y", "col">>, <<"row", "x">> }

ResolverDatasets ==
    { ("data" :> GridVar(ca, dl)) @@ cv @@ g :
        ca \in CoordinatesAttrs, dl \in DimensionLists, cv \in CoordVarSets,
        g \in { gg \in GoesOptions : gg = NoVars \/ gg["goes_imager_projection"].perspective_point_height.k = "num" } }

\* A 4 x 4 grid with X ascending by 1 and Y descending by 3.
ExampleDataset ==
    ("data" :> DataVar(<<4, 4>>, <<"y", "x">>, Absent, NoNorm))
        @@ ("y" :> Coord1D("y", <<10, 7, 4, 1>>, Absent))
        @@ ("x" :> Coord1D("x", <<0, 1, 2, 3>>, Absent))

GTDatasets == ArrayDatasets \cup ResolverDatasets \cup {ExampleDataset}

InitGT ==
    /\ dataset \in GTDatasets
    /\ var_combo = "data"
    /\ files = {}
    /\ writes = [p \in Paths |-> 0]
    /\ registry = {}
    /\ last = IdleCall
    /\ gtres = NoResult
    /\ projres = NoProjResult

\* geotransform, coord_names = self.get_geotransform(var)
\* c is the resolver's answer, which get_geotransform builds on.
callGetGeotransform ==
    /\ ~gtres.done
    /\ gtres' = [done |-> TRUE,
                 res |-> get_geotransform(dataset, dataset["data"]),
                 c |-> ResolveCoordinates(dataset, dataset["data"])]
    /\ UNCHANGED <<dataset, var_combo, files, writes, registry, last, projres>>

SpecGT == InitGT /\ [][callGetGeotransform]_vars

(***************************************************************************)
(* get_projection_info on files holding any set of candidate variables     *)
(***************************************************************************)
\* The grid_mapping_name each candidate variable carries in these files:
\* one per branch of the classifier, so that the reference returned tells
\* which variable it was built from.
CandidateMapping(name) ==
    CASE name = "crs" -> Str("latitude_longitude")
      [] name = "transverse_mercator" -> Str("transverse_mercator")
      [] name = "lambert_conformal_conic" -> Str("lambert_conformal_conic")
      [] name = "goes_imager_projection" -> Str("geostationary")
      [] name = "polar_stereographic" -> Str("polar_stereographic")
      [] name = "grid_mapping" -> Str("mercator")
      [] OTHER -> Absent

\* Every set of candidate names.
CandidateSets == SUBSET {proj_vars[i] : i \in 1..Len(proj_vars)}

\* A data variable, with or without coordinate variables, and the
\* candidates of one set.
ProjDatasets ==
    { ("data" :> DataVar(<<2, 3>>, <<"y", "x">>, Absent, NoNorm)) @@ cv
        @@ [name \in present |-> GridMapping(CandidateMapping(name), Num(2))] :
        present \in CandidateSets, cv \in CoordOptions }

InitProj ==
    /\ dataset \in ProjDatasets
    /\ var_combo = "data"
    /\ files = {}
    /\ writes = [p \in Paths |-> 0]
    /\ registry = {}
    /\ last = IdleCall
    /\ gtres = NoResult
    /\ projres = NoProjResult

\* srs, grid_mapping = self.get_projection_info()
callGetProjectionInfo ==
    /\ ~projres.done
    /\ \E proj4_raises \in Proj4Answers(dataset) :
            projres' = [done |-> TRUE, res |-> get_projection_info(dataset, proj4_raises)]
    /\ UNCHANGED <<dataset, var_combo, files, writes, registry, last, gtres>>

SpecProj == InitProj /\ [][callGetProjectionInfo]_vars

(***************************************************************************)
(* Properties                                                              *)
(***************************************************************************)
\* The last visualize call got past the selection and rank checks.
IsCall == last.outcome \in {"exception", "invalid", "added"}

StrictlyAscending(a) == Len(a) > 1 /\ \A i \in 1..(Len(a) - 1) : a[i] < a[i + 1]
StrictlyDescending(a) == Len(a) > 1 /\ \A i \in 1..(Len(a) - 1) : a[i] > a[i + 1]

\* The Y array get_geotransform worked on, after the satellite scaling.
ResolvedY ==
    LET y0 == YValues(dataset[gtres.res.y_name])
    IN  IF HasVar(dataset, "goes_imager_projection")
        THEN Scaled(y0, SatelliteHeight(dataset)) ELSE y0

\* C1: for every resolved coordinate pair whose Y is ascending, descending or
\* of length 1, the sixth element of the geotransform is negative and
\* origin-y is the topmost Y value: the first element when Y is descending,
\* the last when Y is ascending.
C1_PixelHeightNegative ==
    (gtres.done /\ gtres.res.ok) =>
        LET y0 == YValues(dataset[gtres.res.y_name])
            y == ResolvedY
        IN  (StrictlyAscending(y0) \/ StrictlyDescending(y0) \/ Len(y0) = 1) =>
                /\ gtres.res.gt[6] < 0
                /\ gtres.res.gt[4] = IF StrictlyDescending(y0) THEN y[1] ELSE y[Len(y)]

\* C2: a call in which the driver cannot allocate the file, the band write
\* returns a non-zero status, or the finished file fails the validity check
\* adds no layer: addMapLayer is not among its calls and its path is not in
\* the registry; addMapLayer is reached only after every earlier step ran
\* and the layer was valid.
C2_NoLayerOnFailure ==
    IsCall =>
        /\ last.fault \in {"create", "write_status", "invalid"} =>
                /\ "addMapLayer" \notin {last.ops[i] : i \in 1..Len(last.ops)}
                /\ last.path \notin registry
        /\ last.path \in registry =>
                /\ last.fail = 0
                /\ last.fault = "none"
                /\ last.ops = <<"mkstemp", "Create">>
                        \o Opt(last.srs.found, "SetProjection")
                        \o Opt(last.gt.ok, "SetGeoTransform")
                        \o <<"WriteArray", "SetNoDataValue", "ComputeStatistics",
                             "close", "QgsRasterLayer", "addMapLayer">>

\* C2 witness: a call whose file failed the validity check and left the
\* registry empty.
C2_Witness ==
    /\ last.outcome = "invalid"
    /\ last.fault = "invalid"
    /\ last.path \in files
    /\ registry = {}

\* C3: while a variable of rank below 2 is selected, a visualize call
\* reports the error and creates no file and registers no layer.
C3_RankErrorCreatesNothing ==
    [][ (var_combo # "" /\ Rank(dataset[var_combo]) < 2 /\ var_combo' = var_combo) =>
            /\ files' = files
            /\ writes' = writes
            /\ registry' = registry
            /\ last'.outcome = "rank_error"
            /\ last'.path = 0
            /\ last'.ops = <<"pushMessage">> ]_vars

\* C3 witness: a rank error reported for a variable of rank below 2, after
\* which nothing is on disk.
C3_Witness ==
    /\ last.outcome = "rank_error"
    /\ Rank(dataset[last.var]) < 2
    /\ files = {}

\* C4: the X and Y coordinate variables the resolver returns come from the
\* same source, and one resolved from the coordinates attribute is not
\* replaced by the dimension fallback.
C4_NoMergedSources ==
    gtres.done =>
        LET first == ResolveFromCoordinates(dataset, dataset["data"])
        IN  /\ (gtres.c.x_name # "None" /\ gtres.c.y_name # "None")
                    => gtres.c.x_src = gtres.c.y_src
            /\ first.x_name # "None" => gtres.c.x_name = first.x_name
            /\ first.y_name # "None" => gtres.c.y_name = first.y_name

\* grid_mapping_name values the classifier recognises
RecognizedMappings == {"latitude_longitude", "transverse_mercator",
                       "lambert_conformal_conic", "geostationary", "polar_stereographic"}

\* A grid-mapping variable is found and its grid_mapping_name is absent or
\* not recognised.
UnknownMapping(ds) ==
    /\ FirstProjVar(ds) # 0
    /\ LET a == ds[proj_vars[FirstProjVar(ds)]].grid_mapping_name
       IN  ~hasattr(a) \/ a.k # "str" \/ a.v \notin RecognizedMappings

\* C5: when the grid-mapping variable found has no recognised
\* grid_mapping_name, the call does not call SetProjection.
C5_UnknownLeavesProjectionUnset ==
    (IsCall /\ UnknownMapping(dataset)) =>
        "SetProjection" \notin {last.ops[i] : i \in 1..Len(last.ops)}

\* C6: the raster is as high as the second-to-last dimension and as wide as
\* the last dimension of the variable, whatever its rank.
C6_LastTwoDimensions ==
    (IsCall /\ Completed(last.fail, 4)) =>
        LET shape == dataset[last.var].shape
        IN  /\ last.ysize = shape[Len(shape) - 1]
            /\ last.xsize = shape[Len(shape)]

\* C7: every cell whose raw value is the fill value is written as
\* fill*scale_factor+add_offset, the value set as the band's no-data value;
\* with scale_factor 1 and add_offset 0 every cell is written as its raw value.
C7_FillCellsCarryNoData ==
    (IsCall /\ Completed(last.fail, 8)) =>
        LET var == dataset[last.var]
        IN  /\ \A i \in 1..Len(var.vals) :
                    var.vals[i] = RawFill(var) => last.band[i] = ScaledFill(var)
            /\ hasattr(last.nodata) => last.nodata.v = ScaledFill(var)
            /\ (ScaleFactor(var) = 1 /\ AddOffset(var) = 0) => last.band = var.vals

\* The library calls of the last visualize call, as a set.
LastOps == {last.ops[i] : i \in 1..Len(last.ops)}

C9_AbsenceIsNotFatal ==
    IsCall =>
        LET var == dataset[last.var]
            noproj == FirstProjVar(dataset) = 0
            nogt == ~get_geotransform(dataset, var).ok
        IN  (noproj \/ nogt) =>
                /\ noproj => last.fail # 5
                /\ nogt => last.fail # 6
                /\ ( /\ last.fault \in {"none", "invalid"}
                     /\ ~NormalizeRaises(var)
                     /\ Rank(var) = 2
                     /\ ~last.srs.raised ) =>
                        /\ last.fail = 0
                        /\ last.ops = <<"mkstemp", "Create">>
                                \o Opt(~noproj, "SetProjection")
                                \o Opt(~nogt, "SetGeoTransform")
                                \o <<"WriteArray", "SetNoDataValue", "ComputeStatistics",
                                     "close", "QgsRasterLayer">>
                                \o <<IF last.fault = "none" THEN "addMapLayer" ELSE "pushMessage">>
                        /\ last.band = WrittenData(var)
                        /\ (last.fault = "none") <=> (last.path \in registry)

\* C9 witness: a raster registered for a file with neither a grid-mapping
\* variable nor coordinate variables.
C9_Witness ==
    /\ last.outcome = "added"
    /\ FirstProjVar(dataset) = 0
    /\ ~last.gt.ok
    /\ LastOps \cap {"SetProjection", "SetGeoTransform"} = {}
    /\ last.path \in registry

\* C10: no path is used by two visualize calls, and the path of a registered
\* layer was used by exactly one call, the one that registered it.
C10_FreshPathPerCall ==
    \A p \in Paths :
        /\ writes[p] <= 1
        /\ (p \in files) <=> (writes[p] = 1)
        /\ p \in registry => writes[p] = 1

\* C10 witness: a call that failed after its file was allocated, made after
\* another call registered a layer under a different path.
C10_Witness ==
    \E p, q \in Paths :
        /\ p # q
        /\ p \in registry
        /\ last.path = q
        /\ last.outcome = "exception"
        /\ last.fail > 4
        /\ writes[p] = 1 /\ writes[q] = 1

\* The steps of the raster output in the order of lines 414-470.
StepOrder ==
    <<"Create", "SetProjection", "SetGeoTransform", "WriteArray", "SetNoDataValue",
      "ComputeStatistics", "close", "QgsRasterLayer">>

\* The place of a call in StepOrder, 0 for a call that is not a step of it.
StepRank(op) ==
    IF \E k \in 1..Len(StepOrder) : StepOrder[k] = op
    THEN CHOOSE k \in 1..Len(StepOrder) : StepOrder[k] = op
    ELSE 0

\* The output dataset is open when the i-th call of ops is made: a Create
\* came before it with no close in between.
OpenAt(ops, i) ==
    \E j \in 1..(i - 1) :
        /\ ops[j] = "Create"
        /\ \A k \in (j + 1)..(i - 1) : ops[k] # "close"

\* C11: in a visualize call that raised nothing, the raster is allocated,
\* the pixel data written, the no-data value set, the statistics computed
\* and the dataset closed, each once and in that order, with SetProjection
\* and SetGeoTransform, when made, between the allocation and the write and
\* in that order; the layer is constructed after the close and its validity
\* decides the one call that follows.  In every call, failed ones included,
\* the output dataset is not open when the layer is constructed or registered.
C11_StepsInOrder ==
    IsCall =>
        LET ops == last.ops
            steps == SelectSeq(ops, LAMBDA op : StepRank(op) # 0)
        IN  /\ last.fail = 0 =>
                /\ \A i, j \in 1..Len(steps) :
                        i < j => StepRank(steps[i]) < StepRank(steps[j])
                /\ {"Create", "WriteArray", "SetNoDataValue", "ComputeStatistics",
                     "close", "QgsRasterLayer"} \subseteq LastOps
                /\ ops[1] = "mkstemp"
                /\ ops[Len(ops) - 1] = "QgsRasterLayer"
                /\ ops[Len(ops)] = IF last.outcome = "added" THEN "addMapLayer"
                                                            ELSE "pushMessage"
            /\ \A i \in 1..Len(ops) :
                    ops[i] \in {"QgsRasterLayer", "addMapLayer"} =>
                        /\ ~OpenAt(ops, i)
                        /\ \E j \in 1..(i - 1) : ops[j] = "close"

\* C11 witness: a registered raster whose call set both the projection and
\* the geotransform before the write.
C11_Witness ==
    /\ last.outcome = "added"
    /\ last.fail = 0
    /\ {"SetProjection", "SetGeoTransform"} \subseteq LastOps
    /\ Len(last.ops) = 10
    /\ last.path \in registry

\* The coordinate arrays of the resolved pair, as read from the file.
ResolvedX0 == XValues(dataset[gtres.c.x_name])
ResolvedY0 == YValues(dataset[gtres.c.y_name])

\* C12: without a goes_imager_projection variable, for every resolved X of
\* more than one element with x[1] > x[0] and every resolved Y of more than
\* one element with y[1] < y[0], get_geotransform returns
\* (x[0], abs(x[1]-x[0]), 0, y[0], 0, -abs(y[1]-y[0])).
C12_AscendingXDescendingY ==
    ( /\ gtres.done
      /\ gtres.c.x_name # "None"
      /\ gtres.c.y_name # "None"
      /\ ~HasVar(dataset, "goes_imager_projection") ) =>
        LET x == ResolvedX0
            y == ResolvedY0
        IN  (Len(x) > 1 /\ Len(y) > 1 /\ x[2] > x[1] /\ y[2] < y[1]) =>
                /\ gtres.res.ok
                /\ gtres.res.gt = <<x[1], Abs(x[2] - x[1]), 0,
                                    y[1], 0, -Abs(y[2] - y[1])>>

\* C12 witness: X = [0,1,2,3], Y = [10,7,4,1] gave (0, 1, 0, 10, 0, -3).
C12_Witness ==
    /\ gtres.done
    /\ dataset = ExampleDataset
    /\ gtres.res.ok
    /\ gtres.res.gt = <<0, 1, 0, 10, 0, -3>>

\* C13: with a goes_imager_projection variable whose perspective_point_height
\* is a number or absent, the geotransform is built from the coordinates
\* multiplied by that height, 35786023 when absent: the pixel width computed
\* at line 313 is abs(x[1]*h - x[0]*h) = abs(x[1]-x[0])*h, stored as it is for
\* ascending X and negated by the orientation step for the other X, and both
\* origins are scaled coordinate values.  Without the variable the
\* geotransform is built from the coordinates as stored.
C13_SatelliteScaling ==
    ( /\ gtres.done
      /\ gtres.c.x_name # "None"
      /\ gtres.c.y_name # "None"
      /\ Len(ResolvedX0) > 1
      /\ Len(ResolvedY0) > 1 ) =>
        LET x == ResolvedX0
            y == ResolvedY0
            goes == HasVar(dataset, "goes_imager_projection")
            attr == dataset["goes_imager_projection"].perspective_point_height
            h == IF ~goes THEN 1 ELSE IF attr.k = "absent" THEN 35786023 ELSE attr.v
            dx == Abs(x[2] - x[1]) * h
            dy == Abs(y[2] - y[1]) * h
        IN  (goes => attr.k \in {"absent", "num"}) =>
                /\ gtres.res.ok
                /\ gtres.res.gt[2] = IF x[2] > x[1] THEN dx ELSE -dx
                /\ gtres.res.gt[6] = IF y[2] > y[1] THEN dy ELSE -dy
                /\ gtres.res.gt[1] = h * (IF x[2] > x[1] THEN x[1] ELSE x[Len(x)])
                /\ gtres.res.gt[4] = h * (IF y[2] > y[1] THEN y[Len(y)] ELSE y[1])
                /\ gtres.res.gt[3] = 0
                /\ gtres.res.gt[5] = 0

\* C13 witness: a satellite file without the height attribute, X ascending
\* by 1 from 1 and Y descending by 1 from 2: the pixel width and both origins
\* carry the default height.
C13_Witness ==
    /\ gtres.done
    /\ gtres.res.ok
    /\ HasVar(dataset, "goes_imager_projection")
    /\ ~hasattr(dataset["goes_imager_projection"].perspective_point_height)
    /\ ResolvedX0 = <<1, 2>>
    /\ ResolvedY0 = <<2, 1, 0>>
    /\ gtres.res.gt = <<35786023, 35786023, 0, 71572046, 0, -35786023>>

\* The candidate names in the order of the claim.
CandidateOrder ==
    <<"crs", "transverse_mercator", "projection", "lambert_conformal_conic",
      "goes_imager_projection", "polar_stereographic", "grid_mapping">>

\* C14: get_projection_info builds its reference from the candidate variable
\* that comes first in (crs, transverse_mercator, projection,
\* lambert_conformal_conic, goes_imager_projection, polar_stereographic,
\* grid_mapping) among those in the file, whatever later candidates the file
\* also holds, and returns (None, None) exactly when the file holds none.
C14_FirstCandidateWins ==
    projres.done =>
        LET present == {i \in 1..Len(CandidateOrder) : CandidateOrder[i] \in DOMAIN dataset}
            res == projres.res
        IN  /\ (present = {}) <=> ~res.found
            /\ (present = {}) => (res.var_name = "None" /\ res.kind = "None")
            /\ \A i \in present :
                    (\A j \in present : i <= j) =>
                        /\ res.var_name = CandidateOrder[i]
                        /\ res.kind = SrsKind(dataset[CandidateOrder[i]])

\* C14 witness: a file with crs, transverse_mercator and grid_mapping
\* variables, classified from crs as geographic.
C14_Witness ==
    /\ projres.done
    /\ {"crs", "transverse_mercator", "grid_mapping"} \subseteq DOMAIN dataset
    /\ projres.res.found
    /\ projres.res.var_name = "crs"
    /\ projres.res.kind = "EPSG4326"

====
